---- MODULE Spec2Model ----
(***************************************************************************)
(* Model of the workshop dashboard (git_workshop.py).  The program is a    *)
(* Streamlit script: every user interaction runs the whole script from     *)
(* top to bottom against st.session_state.  One action of the model is     *)
(* one such script run, with the interaction that triggered it.            *)
(***************************************************************************)
EXTENDS Integers, Sequences, FiniteSets, TLC

VARIABLES
    attendance_df,  \* st.session_state.attendance_df: [columns, rows]
    images,         \* st.session_state.images: sequence of [name, bytes]
    feedback,       \* st.session_state.feedback: [columns, rows]
    widgets,        \* checkbox widget state, row position -> [default, value]
    view,           \* what the last run left on the page: "rows", "empty", "error"
    download,       \* CSV payload behind the download link of the last run
    arg,            \* input of the analytics function under check
    out             \* its result

vars == <<attendance_df, images, feedback, widgets, view, download, arg, out>>

(***************************************************************************)
(* Bounds of the model.                                                    *)
(***************************************************************************)
MaxRows == 2        \* data rows of an uploaded attendance file
MaxFbRows == 2      \* data rows of an uploaded feedback file
MaxFeedback == 2    \* rows of the feedback table
MaxImages == 1      \* entries of the image list
MaxDigit == 9       \* numeric cell texts are "0" .. "9"
MaxChartRows == 3   \* rows of a table handed to a chart
MaxComments == 2    \* comments handed to the keyword table

(***************************************************************************)
(* Values of a DataFrame cell, as pandas types them.  A value is a pair    *)
(* <<dtype, repr>>; repr is what str() of the value gives.                 *)
(***************************************************************************)
NaN == <<"nan", "">>
Str(s) == <<"str", s>>
PyBool(b) == IF b THEN <<"bool", "True">> ELSE <<"bool", "False">>
PyInt(n) == <<"int", ToString(n)>>
PyFloat(n) == <<"float", ToString(n) \o ".0">>

\* pandas' default na_values (those the model's files can contain)
NA_VALUES == {"", "NA", "NaN", "nan", "null", "None", "N/A"}
TRUE_VALUES == {"True", "TRUE", "true"}
FALSE_VALUES == {"False", "FALSE", "false"}
IntTexts == {ToString(n) : n \in 0..MaxDigit}
FloatTexts == {ToString(n) \o ".0" : n \in 0..MaxDigit}

NumOf(t) ==
    IF t \in IntTexts THEN CHOOSE n \in 0..MaxDigit : ToString(n) = t
    ELSE CHOOSE n \in 0..MaxDigit : ToString(n) \o ".0" = t

\* bool(v) of Python / numpy for a cell value
Truthy(v) ==
    CASE v[1] = "bool" -> v[2] = "True"
      [] v[1] = "nan" -> TRUE
      [] v[1] = "str" -> v[2] # ""
      [] OTHER -> NumOf(v[2]) # 0

Range(s) == {s[i] : i \in DOMAIN s}

\* the column names of the two tables, in the order the program creates them
InitAttendanceColumns == <<"Name", "Email", "Registered At", "Attended", "Department">>
FeedbackColumns == <<"Name", "Rating", "Comments", "Submitted At">>

(***************************************************************************)
(* CSV files.  A file is [header, lines]: the header's column names and    *)
(* the cell texts of each data line.  The empty file has no header.        *)
(***************************************************************************)
EmptyFile == [header |-> <<>>, lines |-> <<>>]

\* pd.read_csv raises EmptyDataError on a file with no header line and
\* ParserError on a data line with more fields than the header
Raises(f) ==
    \/ f.header = <<>>
    \/ \E i \in DOMAIN f.lines : Len(f.lines[i]) > Len(f.header)

\* a data line shorter than the header is padded with missing cells
Cell(f, i, j) == IF j <= Len(f.lines[i]) THEN f.lines[i][j] ELSE ""

\* pd.read_csv's type inference for one column: int64, float64, bool, object
InferColumn(cells) ==
    LET present == {i \in DOMAIN cells : cells[i] \notin NA_VALUES}
    IN  IF present = {} THEN [i \in DOMAIN cells |-> NaN]
        ELSE IF \A i \in present : cells[i] \in IntTexts
        THEN IF present = DOMAIN cells
             THEN [i \in DOMAIN cells |-> PyInt(NumOf(cells[i]))]
             ELSE [i \in DOMAIN cells |->
                     IF i \in present THEN PyFloat(NumOf(cells[i])) ELSE NaN]
        ELSE IF \A i \in present : cells[i] \in IntTexts \cup FloatTexts
        THEN [i \in DOMAIN cells |->
                 IF i \in present THEN PyFloat(NumOf(cells[i])) ELSE NaN]
        ELSE IF \A i \in present : cells[i] \in TRUE_VALUES \cup FALSE_VALUES
        THEN [i \in DOMAIN cells |->
                 IF i \in present THEN PyBool(cells[i] \in TRUE_VALUES) ELSE NaN]
        ELSE [i \in DOMAIN cells |->
                 IF i \in present THEN Str(cells[i]) ELSE NaN]

\* pd.read_csv(file) for a file that parses
read_csv(f) ==
    LET n == Len(f.lines)
        col(j) == InferColumn([i \in 1..n |-> Cell(f, i, j)])
        pos(c) == CHOOSE j \in DOMAIN f.header : f.header[j] = c
    IN  [columns |-> f.header,
         rows |-> [i \in 1..n |-> [c \in Range(f.header) |-> col(pos(c))[i]]]]

\* one cell of DataFrame.to_csv: a missing value is written as the empty
\* field, every other value as its str()
CellText(v) == IF v[1] = "nan" THEN "" ELSE v[2]

\* df.to_csv() with the index written as a first, unnamed column
to_csv_with_index(df) ==
    [header |-> <<"Unnamed: 0">> \o df.columns,
     lines |-> [i \in DOMAIN df.rows |->
                  <<ToString(i - 1)>> \o
                  [j \in DOMAIN df.columns |-> CellText(df.rows[i][df.columns[j]])]]]

\* to_csv_bytes(df): df.to_csv(index=False)
to_csv_bytes(df) ==
    [header |-> df.columns,
     lines |-> [i \in DOMAIN df.rows |->
                  [j \in DOMAIN df.columns |-> CellText(df.rows[i][df.columns[j]])]]]

\* df['Attended'] = df['Attended'].astype(bool), when the column is there
AsTypeBool(df) ==
    IF "Attended" \in Range(df.columns)
    THEN [df EXCEPT !.rows =
            [i \in DOMAIN df.rows |->
               [df.rows[i] EXCEPT !["Attended"] = PyBool(Truthy(@))]]]
    ELSE df

\* the attendance branch of "Ingest uploads": the table the upload becomes
LoadAttendance(f) == AsTypeBool(read_csv(f))

\* the uploaded table taking the place of the session's table
ReplaceBy(a, b) == b

\* pd.concat([a, b], ignore_index=True): the union of the columns, a's
\* first; b's rows follow a's; a column a row lacks is missing in it
Concat(a, b) ==
    LET extra == SelectSeq(b.columns, LAMBDA c : c \notin Range(a.columns))
        cols == a.columns \o extra
        widen(r) == [c \in Range(cols) |-> IF c \in DOMAIN r THEN r[c] ELSE NaN]
    IN  [columns |-> cols,
         rows |-> [i \in 1..(Len(a.rows) + Len(b.rows)) |->
                     IF i <= Len(a.rows) THEN widen(a.rows[i])
                     ELSE widen(b.rows[i - Len(a.rows)])]]

\* DataFrame.at[i, col] = val; a new column is added at the end, missing
\* in the other rows
SetAt(df, i, c, val) ==
    [columns |-> IF c \in Range(df.columns) THEN df.columns ELSE Append(df.columns, c),
     rows |-> [k \in DOMAIN df.rows |->
                 IF k = i THEN (c :> val) @@ df.rows[k]
                 ELSE IF c \in DOMAIN df.rows[k] THEN df.rows[k]
                 ELSE (c :> NaN) @@ df.rows[k]]]

(***************************************************************************)
(* The checkbox of one roster row.  Streamlit identifies a widget by its   *)
(* key together with its parameters, the default value among them: the     *)
(* state the browser holds for the key is returned only while the default  *)
(* is the one the widget was created with; with another default the        *)
(* widget is a new one and returns that default.                           *)
(***************************************************************************)
Checkbox(w, i, v) ==
    IF i \in DOMAIN w /\ w[i].default = v THEN w[i].value ELSE v

\* row.get('Attended', False), as bool()
RowAttended(row) ==
    IF "Attended" \in DOMAIN row THEN Truthy(row["Attended"]) ELSE FALSE

\* the loop over df.iterrows(): rows are read from the copy taken before
\* the loop, every checkbox value is written back to the session's table
RECURSIVE CheckboxLoop(_, _, _, _, _)
CheckboxLoop(i, copy, df, w, rendered) ==
    IF i > Len(copy.rows) THEN [df |-> df, widgets |-> rendered]
    ELSE LET v == RowAttended(copy.rows[i])
             newval == Checkbox(w, i, v)
         IN  CheckboxLoop(i + 1, copy, SetAt(df, i, "Attended", PyBool(newval)), w,
                          Append(rendered, [default |-> v, value |-> newval]))

\* the left column of the page, run on the table df with the widget state w
\* the browser sent: the table, the widgets and the page it leaves
Roster(df, w) ==
    IF Len(df.rows) = 0
    THEN [df |-> df, widgets |-> <<>>, view |-> "empty"]
    ELSE LET r == CheckboxLoop(1, df, df, w, <<>>)
         IN  [df |-> r.df, widgets |-> r.widgets, view |-> "rows"]

(***************************************************************************)
(* The figures the page derives from the tables.                           *)
(***************************************************************************)
\* the number a cell stands for in Series.sum(): True is 1, False is 0
NumValue(v) ==
    CASE v[1] = "bool" -> IF v[2] = "True" THEN 1 ELSE 0
      [] v[1] = "nan" -> 0
      [] OTHER -> NumOf(v[2])

\* d[c].sum() over the first n rows
RECURSIVE ColumnSum(_, _, _)
ColumnSum(d, c, n) ==
    IF n = 0 THEN 0 ELSE ColumnSum(d, c, n - 1) + NumValue(d.rows[n][c])

\* f"{(a / r * 100):.1f}": one decimal, halves rounded to the even digit
Format1f(a, r) ==
    LET q == (1000 * a) \div r
        rem == (1000 * a) % r
        tenths == IF 2 * rem > r \/ (2 * rem = r /\ q % 2 = 1) THEN q + 1 ELSE q
    IN  ToString(tenths \div 10) \o "." \o ToString(tenths % 10)

\* the KPI cards with Series.count() in the place of Series.sum()
ComputeKPIsCount(d) ==
    LET total_registered == Len(d.rows)
        total_attended ==
            IF "Attended" \in Range(d.columns) /\ Len(d.rows) > 0
            THEN Len(d.rows) ELSE 0
    IN  [registered |-> total_registered,
         attended |-> total_attended,
         rate |-> IF total_registered > 0
                  THEN Format1f(total_attended, total_registered) \o "%"
                  ELSE "0%"]

\* the three KPI cards for the table d
ComputeKPIs(d) ==
    LET total_registered == Len(d.rows)
        total_attended ==
            IF "Attended" \in Range(d.columns) /\ Len(d.rows) > 0
            THEN ColumnSum(d, "Attended", Len(d.rows)) ELSE 0
    IN  [registered |-> total_registered,
         attended |-> total_attended,
         rate |-> IF total_registered > 0
                  THEN Format1f(total_attended, total_registered) \o "%"
                  ELSE "0%"]

\* insertion of the pair x = [k, v] into a sequence sorted by k, after the
\* entries of equal k
RECURSIVE InsertKeyed(_, _)
InsertKeyed(x, s) ==
    IF s = <<>> THEN <<x>>
    ELSE IF x.k < Head(s).k THEN <<x>> \o s
    ELSE <<Head(s)>> \o InsertKeyed(x, Tail(s))

RECURSIVE SortKeyed(_)
SortKeyed(s) ==
    IF s = <<>> THEN <<>>
    ELSE InsertKeyed(s[Len(s)], SortKeyed(SubSeq(s, 1, Len(s) - 1)))

\* sorted(s, key=Key): ascending and stable
SortBy(s, Key(_)) ==
    LET sorted == SortKeyed([i \in DOMAIN s |-> [k |-> Key(s[i]), v |-> s[i]]])
    IN  [i \in DOMAIN s |-> sorted[i].v]

\* the distinct values of column c that are not missing, in the order of
\* their first appearance
RECURSIVE Uniques(_, _, _)
Uniques(d, c, n) ==
    IF n = 0 THEN <<>>
    ELSE LET before == Uniques(d, c, n - 1)
             v == d.rows[n][c]
         IN  IF v = NaN \/ v \in Range(before) THEN before ELSE Append(before, v)

\* the department names of the model in the order of Python's str comparison
DepartmentNames == <<"CSE", "ECE", "ME">>
StrRank(v) == CHOOSE k \in DOMAIN DepartmentNames : DepartmentNames[k] = v[2]

\* the keys of df.groupby(c, sort=False)
GroupKeysUnsorted(d, c) == Uniques(d, c, Len(d.rows))

\* the keys of df.groupby(c): sort=True and dropna=True are the defaults
GroupKeys(d, c) == SortBy(Uniques(d, c, Len(d.rows)), StrRank)

\* the sum and the count of the Attended values of the rows 1..n of key k
RECURSIVE GroupSum(_, _, _)
GroupSum(d, k, n) ==
    IF n = 0 THEN 0
    ELSE GroupSum(d, k, n - 1)
         + (IF d.rows[n]["Department"] = k THEN NumValue(d.rows[n]["Attended"]) ELSE 0)

RECURSIVE GroupCount(_, _, _)
GroupCount(d, k, n) ==
    IF n = 0 THEN 0
    ELSE GroupCount(d, k, n - 1)
         + (IF d.rows[n]["Department"] = k /\ d.rows[n]["Attended"] # NaN THEN 1 ELSE 0)

\* groupby('Department')['Attended'].agg(['sum', 'count']).reset_index()
AggregateByDepartment(d) ==
    IF "Department" \in Range(d.columns) /\ Len(d.rows) > 0
    THEN LET keys == GroupKeys(d, "Department")
         IN  [shown |-> TRUE,
              group |-> [k \in DOMAIN keys |->
                  [Department |-> keys[k],
                   sum |-> GroupSum(d, keys[k], Len(d.rows)),
                   count |-> GroupCount(d, keys[k], Len(d.rows))]]]
    ELSE [shown |-> FALSE, group |-> <<>>]

\* the timestamps of the model that pd.to_datetime parses, with the
\* calendar date (yyyymmdd) of each
Timestamps ==
    ("2024-03-01 10:10" :> 20240301) @@ ("2024-03-01 18:05" :> 20240301)
    @@ ("2024-03-02 11:20" :> 20240302) @@ ("2024-03-03 09:15" :> 20240303)
    @@ ("2024-03-03 13:40" :> 20240303) @@ ("2024-03-04 08:50" :> 20240304)

Parses(v) == v[1] = "str" /\ v[2] \in DOMAIN Timestamps
DateOf(v) == <<"date", Timestamps[v[2]]>>
DateKey(v) == v[2]

\* the timeline: pd.to_datetime on the whole column inside the try, then
\* groupby(date).size(); missing values become NaT and fall out of the groups
RegistrationTimeline(d) ==
    IF "Registered At" \in Range(d.columns) /\ Len(d.rows) > 0
    THEN IF \E i \in DOMAIN d.rows :
               d.rows[i]["Registered At"] # NaN /\ ~Parses(d.rows[i]["Registered At"])
         THEN [shown |-> TRUE, error |-> TRUE, times |-> <<>>]
         ELSE LET tmp == [rows |-> [i \in DOMAIN d.rows |->
                            [d.rows[i] EXCEPT !["Registered At"] =
                                IF @ = NaN THEN NaN ELSE DateOf(@)]]]
                  keys == SortBy(Uniques(tmp, "Registered At", Len(tmp.rows)), DateKey)
              IN  [shown |-> TRUE, error |-> FALSE,
                   times |-> [k \in DOMAIN keys |->
                       [date |-> keys[k][2],
                        registrations |-> Cardinality({i \in DOMAIN tmp.rows :
                            tmp.rows[i]["Registered At"] = keys[k]})]]]
    ELSE [shown |-> FALSE, error |-> FALSE, times |-> <<>>]

(***************************************************************************)
(* Keyword frequency.  A string is the sequence of its characters.         *)
(***************************************************************************)
\* str.lower() on the letters of the model
Lower(ch) ==
    CASE ch = "G" -> "g" [] ch = "W" -> "w" [] ch = "N" -> "n" [] OTHER -> ch

\* " ".join(strings)
RECURSIVE Join(_)
Join(strs) ==
    IF strs = <<>> THEN <<>>
    ELSE IF Len(strs) = 1 THEN strs[1]
    ELSE strs[1] \o <<" ">> \o Join(Tail(strs))

\* str.split(): the maximal runs of characters that are not whitespace
Split(chars) ==
    LET starts == {i \in DOMAIN chars :
                     chars[i] # " " /\ (i = 1 \/ chars[i - 1] = " ")}
        start(k) == CHOOSE i \in starts : Cardinality({j \in starts : j < i}) = k - 1
        end(i) == CHOOSE e \in i..Len(chars) :
                     /\ \A j \in i..e : chars[j] # " "
                     /\ (e = Len(chars) \/ chars[e + 1] = " ")
    IN  [k \in 1..Cardinality(starts) |-> SubSeq(chars, start(k), end(start(k)))]

\* the characters of t.strip('.,!?:;()[]"\'')
Punctuation == {".", ",", "!", "?", ":", ";", "(", ")", "[", "]", "\"", "'"}

RECURSIVE LStrip(_)
LStrip(t) == IF t # <<>> /\ Head(t) \in Punctuation THEN LStrip(Tail(t)) ELSE t

RECURSIVE RStrip(_)
RStrip(t) ==
    IF t # <<>> /\ t[Len(t)] \in Punctuation THEN RStrip(SubSeq(t, 1, Len(t) - 1)) ELSE t

Strip(t) == RStrip(LStrip(t))

\* [t.strip(...) for t in all_comments.split() if len(t) > 3]
Tokens(all_comments) ==
    LET kept == SelectSeq(Split(all_comments), LAMBDA t : Len(t) > 3)
    IN  [i \in DOMAIN kept |-> Strip(kept[i])]

\* Counter(tokens): the distinct tokens in the order of first occurrence,
\* each with the number of its occurrences
RECURSIVE Counter(_)
Counter(tokens) ==
    IF tokens = <<>> THEN <<>>
    ELSE LET before == Counter(SubSeq(tokens, 1, Len(tokens) - 1))
             t == tokens[Len(tokens)]
         IN  IF \E k \in DOMAIN before : before[k].word = t
             THEN [k \in DOMAIN before |->
                     IF before[k].word = t
                     THEN [before[k] EXCEPT !.count = @ + 1] ELSE before[k]]
             ELSE Append(before, [word |-> t, count |-> 1])

TopK == 10
NegCount(e) == 0 - e.count

\* Counter.most_common(n): by count, largest first, equal counts in the
\* order of first occurrence; the first n
MostCommon(counter, n) ==
    LET sorted == SortBy(counter, NegCount)
    IN  SubSeq(sorted, 1, IF Len(sorted) < n THEN Len(sorted) ELSE n)

\* the keyword table of the feedback analytics, for the Comments column
\* (as str) of the feedback table; nothing is shown for an empty table
TopKeywords(comments) ==
    IF Len(comments) = 0 THEN <<>>
    ELSE LET joined == Join(comments)
             all_comments == [i \in DOMAIN joined |-> Lower(joined[i])]
         IN  MostCommon(Counter(Tokens(all_comments)), TopK)

(***************************************************************************)
(* The inputs of the model: uploaded files, form entries.                  *)
(***************************************************************************)
SeqsUpTo(S, n) == UNION {[1..k -> S] : k \in 0..n}

AttendanceHeader == <<"Name", "Email", "Registered At", "Department", "Attended">>

\* data lines of an attendance file: a duplicated e-mail, a missing
\* department, a date that does not parse, Attended cells that are no booleans
AttLines ==
    { <<"Aisha", "aisha@uni.edu", "2024-03-01 10:10", "CSE", "True">>,
      <<"Rohit", "aisha@uni.edu", "soon", "", "0">> }

\* attendance uploads: with the Attended column or without it, or empty
AttFiles ==
    {[header |-> AttendanceHeader, lines |-> ls] : ls \in SeqsUpTo(AttLines, MaxRows)}
    \cup {[header |-> SubSeq(AttendanceHeader, 1, 4),
           lines |-> [i \in DOMAIN ls |-> SubSeq(ls[i], 1, 4)]] :
             ls \in SeqsUpTo(AttLines, MaxRows)}
    \cup {EmptyFile}

\* data lines of a feedback file: a rating out of range, one that is no number
FbLines ==
    { <<"Asha", "5", "Great workshop", "2024-03-16T10:00:00">>,
      <<"", "9", "", "2024-03-16T11:00:00">>,
      <<"Ravi", "high", "nice", "2024-03-16T12:00:00">> }

FbFiles ==
    {[header |-> FeedbackColumns, lines |-> ls] : ls \in SeqsUpTo(FbLines, MaxFbRows)}
    \cup {EmptyFile}

ImageFiles == {[name |-> "day1.png", bytes |-> "png"]}

\* datetime.utcnow().isoformat() at the submission
UtcNow == Str("2024-03-16T09:30:00")

\* the sample roster of "Create sample data"
SampleData ==
    LET row(n, e, r, d, a) ==
            [c \in Range(AttendanceHeader) |->
               CASE c = "Name" -> Str(n) [] c = "Email" -> Str(e)
                 [] c = "Registered At" -> Str(r) [] c = "Department" -> Str(d)
                 [] OTHER -> PyBool(a)]
    IN  [columns |-> AttendanceHeader,
         rows |-> << row("Aisha Patel", "aisha@uni.edu", "2024-03-01 10:10", "CSE", TRUE),
                     row("Rohit Sharma", "rohit@uni.edu", "2024-03-02 11:20", "ECE", FALSE),
                     row("Kavya Nair", "kavya@uni.edu", "2024-03-03 09:15", "CSE", TRUE),
                     row("Arjun Menon", "arjun@uni.edu", "2024-03-03 13:40", "ME", TRUE),
                     row("Leena Thomas", "leena@uni.edu", "2024-03-04 08:50", "CSE", FALSE) >>]

\* pd.DataFrame(columns=...): a table with no rows
EmptyFrame(columns) == [columns |-> columns, rows |-> <<>>]

(***************************************************************************)
(* The session: one action per interaction, each a whole script run.       *)
(***************************************************************************)
\* the session state of a new session, before the first run renders
NewSession ==
    /\ attendance_df = EmptyFrame(InitAttendanceColumns)
    /\ images = <<>>
    /\ feedback = EmptyFrame(FeedbackColumns)
    /\ widgets = <<>>
    /\ view = "empty"
    /\ download = <<>>

Init ==
    /\ NewSession
    /\ arg = <<>>
    /\ out = <<>>

\* a run that no button triggered (an uploader or a form field changed)
Rerun ==
    LET r == Roster(attendance_df, widgets)
    IN  /\ attendance_df' = r.df
        /\ widgets' = r.widgets
        /\ view' = r.view
        /\ download' = <<>>
        /\ UNCHANGED <<images, feedback, arg, out>>

\* "Ingest uploads" with the files in the three uploaders (att and fb hold
\* no file or one).  pd.read_csv raising ends the run where it stands.
Ingest(att, imgs, fb) ==
    /\ Len(images) + Len(imgs) <= MaxImages
    /\ fb # <<>> /\ ~Raises(fb[1]) =>
          Len(feedback.rows) + Len(fb[1].lines) <= MaxFeedback
    /\ download' = <<>>
    /\ UNCHANGED <<arg, out>>
    /\ IF att # <<>> /\ Raises(att[1])
       THEN /\ UNCHANGED <<attendance_df, images, feedback>>
            /\ widgets' \in {widgets, <<>>}
            /\ view' = "error"
       ELSE LET df == IF att # <<>> THEN LoadAttendance(att[1]) ELSE attendance_df
            IN  /\ images' = images \o imgs
                /\ IF fb # <<>> /\ Raises(fb[1])
                   THEN /\ attendance_df' = df
                        /\ UNCHANGED feedback
                        /\ widgets' \in {widgets, <<>>}
                        /\ view' = "error"
                   ELSE LET r == Roster(df, widgets)
                        IN  /\ feedback' = IF fb # <<>>
                                           THEN Concat(feedback, read_csv(fb[1]))
                                           ELSE feedback
                            /\ attendance_df' = r.df
                            /\ widgets' = r.widgets
                            /\ view' = r.view

\* the operator ticks or unticks the checkbox of row i
Toggle(i) ==
    /\ view = "rows"
    /\ i \in DOMAIN widgets
    /\ LET r == Roster(attendance_df, [widgets EXCEPT ![i].value = ~@])
       IN  /\ attendance_df' = r.df
           /\ widgets' = r.widgets
           /\ view' = r.view
    /\ download' = <<>>
    /\ UNCHANGED <<images, feedback, arg, out>>

\* "Create sample data", shown while the roster is empty; the script
\* reruns at once and the rerun renders the sample
CreateSample ==
    /\ view = "empty"
    /\ LET r == Roster(SampleData, widgets)
       IN  /\ attendance_df' = r.df
           /\ widgets' = r.widgets
           /\ view' = r.view
    /\ download' = <<>>
    /\ UNCHANGED <<images, feedback, arg, out>>

\* "Download attendance CSV" in the sidebar: the table as the run finds it
DownloadAttendance ==
    /\ view # "error"
    /\ download' = <<to_csv_bytes(attendance_df)>>
    /\ LET r == Roster(attendance_df, widgets)
       IN  /\ attendance_df' = r.df
           /\ widgets' = r.widgets
           /\ view' = r.view
    /\ UNCHANGED <<images, feedback, arg, out>>

\* the feedback form: fname or 'Anonymous', the slider's rating, comments
SubmitFeedback(fname, rating, comments) ==
    /\ view # "error"
    /\ Len(feedback.rows) < MaxFeedback
    /\ LET r == Roster(attendance_df, widgets)
           new == [c \in Range(FeedbackColumns) |->
                     CASE c = "Name" -> Str(IF fname # "" THEN fname ELSE "Anonymous")
                       [] c = "Rating" -> PyInt(rating)
                       [] c = "Comments" -> Str(comments)
                       [] OTHER -> UtcNow]
       IN  /\ attendance_df' = r.df
           /\ widgets' = r.widgets
           /\ view' = r.view
           /\ feedback' = Concat(feedback, [columns |-> FeedbackColumns, rows |-> <<new>>])
    /\ download' = <<>>
    /\ UNCHANGED <<images, arg, out>>

\* the three admin buttons, at the end of the page
Clear(which) ==
    /\ view # "error"
    /\ LET r == Roster(attendance_df, widgets)
       IN  /\ attendance_df' = IF which = "attendance"
                               THEN EmptyFrame(r.df.columns) ELSE r.df
           /\ widgets' = r.widgets
           /\ view' = r.view
    /\ images' = IF which = "images" THEN <<>> ELSE images
    /\ feedback' = IF which = "feedback" THEN EmptyFrame(feedback.columns) ELSE feedback
    /\ download' = <<>>
    /\ UNCHANGED <<arg, out>>

\* the controls of the roster: uploads of attendance files and images (a
\* feedback upload that does not parse among them), the checkboxes, the
\* sample data, the download and the clears
Next ==
    \/ Rerun
    \/ \E att \in {<<>>} \cup {<<f>> : f \in AttFiles} \cup {download},
          imgs \in SeqsUpTo(ImageFiles, 1),
          fb \in {<<>>, <<EmptyFile>>} : Ingest(att, imgs, fb)
    \/ \E i \in DOMAIN widgets : Toggle(i)
    \/ CreateSample
    \/ DownloadAttendance
    \/ \E which \in {"images", "attendance"} : Clear(which)

Spec == Init /\ [][Next]_vars

\* the controls of the feedback table: uploads of feedback files and
\* images, the form and the clears
NextFeedback ==
    \/ Rerun
    \/ \E imgs \in SeqsUpTo(ImageFiles, 1),
          fb \in {<<>>} \cup {<<f>> : f \in FbFiles} : Ingest(<<>>, imgs, fb)
    \/ \E fname \in {"", "Asha"}, rating \in {1, 5}, comments \in {""} :
          SubmitFeedback(fname, rating, comments)
    \/ \E which \in {"images", "feedback"} : Clear(which)

SpecFeedback == Init /\ [][NextFeedback]_vars

\* the controls of the attendance table alone: its upload, the checkboxes,
\* the sample data, the download and the clear
NextRoster ==
    \/ Rerun
    \/ \E att \in {<<f>> : f \in AttFiles} \cup {download} : Ingest(att, <<>>, <<>>)
    \/ \E i \in DOMAIN widgets : Toggle(i)
    \/ CreateSample
    \/ DownloadAttendance
    \/ Clear("attendance")

SpecRoster == Init /\ [][NextRoster]_vars

(***************************************************************************)
(* The charts and the keyword table as functions of the table they read:   *)
(* the table is drawn from a bounded set, one action computes one figure.  *)
(***************************************************************************)
ChartRows ==
    {[c \in Range(AttendanceHeader) |->
        CASE c = "Name" -> Str("Aisha") [] c = "Email" -> Str("aisha@uni.edu")
          [] c = "Registered At" -> r [] c = "Department" -> d [] OTHER -> PyBool(a)] :
      r \in {Str("2024-03-02 11:20"), Str("2024-03-01 10:10"), Str("soon"), NaN},
      d \in {Str("ECE"), Str("CSE"), NaN},
      a \in BOOLEAN}

ChartTables ==
    {[columns |-> AttendanceHeader, rows |-> rs] : rs \in SeqsUpTo(ChartRows, MaxChartRows)}

InitCharts ==
    /\ NewSession
    /\ arg \in ChartTables
    /\ out = <<>>

ShowDepartment ==
    /\ out = <<>>
    /\ out' = <<[chart |-> "department", result |-> AggregateByDepartment(arg)]>>
    /\ UNCHANGED <<attendance_df, images, feedback, widgets, view, download, arg>>

ShowTimeline ==
    /\ out = <<>>
    /\ out' = <<[chart |-> "timeline", result |-> RegistrationTimeline(arg)]>>
    /\ UNCHANGED <<attendance_df, images, feedback, widgets, view, download, arg>>

NextCharts == ShowDepartment \/ ShowTimeline

SpecCharts == InitCharts /\ [][NextCharts]_vars

\* comments of the feedback table, as str
W_great == <<"g", "r", "e", "a", "t">>
W_workshop == <<"w", "o", "r", "k", "s", "h", "o", "p">>
W_was == <<"w", "a", "s">>
W_nice == <<"n", "i", "c", "e">>
Letters == <<"a", "b", "c", "d", "e", "f", "g", "h", "i", "j", "k">>

Comments ==
    { <<"G">> \o Tail(W_great) \o <<" ">> \o W_workshop \o <<" ">> \o W_great
          \o <<" ">> \o W_workshop,
      W_workshop \o <<" ">> \o W_was \o <<" ">> \o W_nice,
      W_was \o <<"!", "!", " ", "(", "n", "o", ")">>,
      W_nice \o <<",", " ", " ">> \o W_nice \o <<"!", " ", "!", "?", "!", "?">>,
      <<>>,
      <<"n", "a", "n">>,
      Join([i \in DOMAIN Letters |-> <<"w", "o", "r", "d", Letters[i]>>]) }

InitKeywords ==
    /\ NewSession
    /\ arg \in SeqsUpTo(Comments, MaxComments)
    /\ out = <<>>

ShowKeywords ==
    /\ out = <<>>
    /\ out' = <<[chart |-> "keywords", result |-> TopKeywords(arg)]>>
    /\ UNCHANGED <<attendance_df, images, feedback, widgets, view, download, arg>>

NextKeywords == ShowKeywords

SpecKeywords == InitKeywords /\ [][NextKeywords]_vars

(***************************************************************************)
(* The claims.                                                             *)
(***************************************************************************)
UploadedImages == SeqsUpTo(ImageFiles, 1)

\* the sum of the counts of a timeline
RECURSIVE SumRegistrations(_)
SumRegistrations(times) ==
    IF times = <<>> THEN 0
    ELSE Head(times).registrations + SumRegistrations(Tail(times))

\* the Department values of the rows 1..n, the missing value among them,
\* in the order of first appearance
RECURSIVE FirstSeen(_, _)
FirstSeen(d, n) ==
    IF n = 0 THEN <<>>
    ELSE LET before == FirstSeen(d, n - 1)
             v == d.rows[n]["Department"]
         IN  IF v \in Range(before) THEN before ELSE Append(before, v)

\* the sum of the row counts of the groups
RECURSIVE SumCounts(_)
SumCounts(group) ==
    IF group = <<>> THEN 0 ELSE Head(group).count + SumCounts(Tail(group))

\* every group's count is the number of its rows, its sum the number of
\* them with Attended true
GroupFigures(d, res) ==
    \A k \in DOMAIN res.group :
        LET members == {i \in DOMAIN d.rows :
                          d.rows[i]["Department"] = res.group[k].Department}
        IN  /\ res.group[k].count = Cardinality(members)
            /\ res.group[k].sum =
                 Cardinality({i \in members : d.rows[i]["Attended"] = PyBool(TRUE)})


\* C1: a valid attendance import leaves, at the end of its run, a table with
\* one row per data line of the file, equal field for field (Attended
\* included, false where the file has no such column) to the parsed rows,
\* whatever the checkboxes held before.
C1_ImportIsFullReplace ==
    [][\A f \in AttFiles, imgs \in UploadedImages, fb \in {<<>>, <<EmptyFile>>} :
         (~Raises(f) /\ Ingest(<<f>>, imgs, fb) /\ view' # "error") =>
            LET parsed == LoadAttendance(f)
            IN  /\ Len(attendance_df'.rows) = Len(f.lines)
                /\ \A i \in DOMAIN parsed.rows :
                     /\ \A c \in DOMAIN parsed.rows[i] :
                            attendance_df'.rows[i][c] = parsed.rows[i][c]
                     /\ RowAttended(attendance_df'.rows[i]) = RowAttended(parsed.rows[i])
      ]_vars

\* C2: a feedback import appends: the table afterwards is as long as the
\* table before plus the data lines of the file, every earlier record keeps
\* its position and its values, and the new records follow in file order.
C2_FeedbackImportAppends ==
    [][\A f \in FbFiles, imgs \in UploadedImages :
         (~Raises(f) /\ Ingest(<<>>, imgs, <<f>>)) =>
            LET n == Len(feedback.rows)
            IN  /\ Len(feedback'.rows) = n + Len(f.lines)
                /\ \A i \in 1..n : feedback'.rows[i] = feedback.rows[i]
                /\ \A k \in DOMAIN f.lines : \A j \in DOMAIN f.header :
                       CellText(feedback'.rows[n + k][f.header[j]]) = Cell(f, k, j)
      ]_vars

\* C2 witness: an earlier form submission with an imported record appended behind it
C2_Witness ==
    /\ Len(feedback.rows) = 2
    /\ feedback.rows[1]["Submitted At"] = UtcNow
    /\ feedback.rows[1]["Name"] = Str("Anonymous")
    /\ feedback.rows[2]["Submitted At"] = Str("2024-03-16T10:00:00")
    /\ feedback.rows[2]["Name"] = Str("Asha")

\* C3: every record of the feedback table has an integer Rating from 1 to 5.
C3_RatingInRange ==
    \A i \in DOMAIN feedback.rows :
        LET r == feedback.rows[i]["Rating"]
        IN  r[1] = "int" /\ NumOf(r[2]) \in 1..5

\* C4: an "Ingest uploads" that fails on one of its files leaves the
\* attendance, feedback and image tables as they were.
C4_RejectedImportMutatesNothing ==
    [][\A att \in {<<>>} \cup {<<f>> : f \in AttFiles}, imgs \in UploadedImages,
          fb \in {<<>>, <<EmptyFile>>} :
         ( /\ Ingest(att, imgs, fb)
           /\ \/ att # <<>> /\ Raises(att[1])
              \/ fb # <<>> /\ Raises(fb[1]) )
         => UNCHANGED <<attendance_df, feedback, images>>
      ]_vars

\* C5: exporting the attendance table to CSV and importing that CSV gives
\* the table back, same columns and rows in the same order, every field
\* and every Attended boolean as it was.
C5_ExportImportRoundTrip ==
    /\ ~Raises(to_csv_bytes(attendance_df))
    /\ LoadAttendance(to_csv_bytes(attendance_df)) = attendance_df

\* C5 witness: an export of a toggled roster with a duplicated e-mail and a missing
\* department, which reads back as the table
C5_Witness ==
    /\ download # <<>>
    /\ LoadAttendance(download[1]) = attendance_df
    /\ Len(attendance_df.rows) = 2
    /\ attendance_df.rows[1]["Email"] = attendance_df.rows[2]["Email"]
    /\ attendance_df.rows[2]["Department"] = NaN
    /\ attendance_df.rows[1]["Attended"] = PyBool(FALSE)
    /\ attendance_df.rows[2]["Attended"] = PyBool(TRUE)

\* C6: the KPIs of the attendance table: registered is the row count,
\* attended the number of rows whose Attended is true (0 without the
\* column), 0 <= attended <= registered, and 0, 0, "0%" on an empty table.
C6_KPIs ==
    LET k == ComputeKPIs(attendance_df)
        n == Len(attendance_df.rows)
    IN  /\ k.registered = n
        /\ k.attended =
             IF "Attended" \in Range(attendance_df.columns)
             THEN Cardinality({i \in 1..n : attendance_df.rows[i]["Attended"] = PyBool(TRUE)})
             ELSE 0
        /\ 0 <= k.attended /\ k.attended <= k.registered
        /\ n = 0 => k = [registered |-> 0, attended |-> 0, rate |-> "0%"]

\* C6 witness: the page still shows the roster of a table that "Clear attendance" emptied
C6_Witness ==
    /\ view = "rows"
    /\ widgets # <<>>
    /\ Len(attendance_df.rows) = 0
    /\ ComputeKPIs(attendance_df).rate = "0%"

\* C7: on a table with a Registered At value that parses, the timeline
\* reports no error, leaves out the rows that do not parse, counts the others
\* by date in ascending date order, and the counts add up to the rows that
\* parse.
C7_TimelineSkipsBadRows ==
    (out # <<>> /\ out[1].chart = "timeline") =>
        LET d == arg
            res == out[1].result
            good == {i \in DOMAIN d.rows : Parses(d.rows[i]["Registered At"])}
        IN  good # {} =>
              /\ ~res.error
              /\ SumRegistrations(res.times) = Cardinality(good)
              /\ \A k \in DOMAIN res.times :
                    /\ res.times[k].registrations =
                         Cardinality({i \in good :
                            Timestamps[d.rows[i]["Registered At"][2]] = res.times[k].date})
                    /\ k > 1 => res.times[k - 1].date < res.times[k].date

C9_TopKeywords ==
    (out # <<>> /\ out[1].chart = "keywords") =>
        LET res == out[1].result
            joined == Join(arg)
            stripped == LET ts == Split([i \in DOMAIN joined |-> Lower(joined[i])])
                        IN  [i \in DOMAIN ts |-> Strip(ts[i])]
            first(w) == CHOOSE i \in DOMAIN stripped :
                          stripped[i] = w /\ \A j \in 1..(i - 1) : stripped[j] # w
        IN  /\ Len(res) <= 10
            /\ arg = <<>> => res = <<>>
            /\ \A k \in DOMAIN res :
                  /\ Len(res[k].word) > 3
                  /\ res[k].count =
                       Cardinality({i \in DOMAIN stripped : stripped[i] = res[k].word})
                  /\ k > 1 =>
                       \/ res[k - 1].count > res[k].count
                       \/ /\ res[k - 1].count = res[k].count
                          /\ first(res[k - 1].word) < first(res[k].word)

\* C10: ticking or unticking the checkbox of a row of the table sets that
\* row's Attended to the box's new value and changes nothing else: the
\* other fields of the row, the other rows, their number and order, the
\* feedback table and the images.
C10_ToggleSetsOnlyThatRow ==
    [][\A i \in DOMAIN widgets :
         (i <= Len(attendance_df.rows) /\ Toggle(i)) =>
            /\ Len(attendance_df'.rows) = Len(attendance_df.rows)
            /\ attendance_df'.rows[i]["Attended"] = PyBool(~widgets[i].value)
            /\ \A c \in DOMAIN attendance_df.rows[i] \ {"Attended"} :
                   attendance_df'.rows[i][c] = attendance_df.rows[i][c]
            /\ \A j \in DOMAIN attendance_df.rows \ {i} :
                   attendance_df'.rows[j] = attendance_df.rows[j]
            /\ UNCHANGED <<feedback, images>>
      ]_vars

====
